---- MODULE Spec2Model ----
(***************************************************************************)
(* A model of amset/interpolate/boltztrap1.py: the BoltzTraP1Interpolater  *)
(* (coefficient-file parsing, star functions, the module-level parameter   *)
(* registry, single-point and bulk evaluation with a worker pool).          *)
(*                                                                         *)
(* Number representation.  All file numbers are small integers.  k-points  *)
(* are given in quarters of a reciprocal lattice vector, so that every     *)
(* phase 2*pi*(G.k) is a multiple of pi/2 and cos/sin are exactly -1, 0, 1. *)
(* Quotients by num_star_vectors are kept exact by carrying the common     *)
(* denominator Den.  An energy is a pair <<a, b>> standing for             *)
(* a * (Ry_to_eV / Den) + b * (1/2) eV, so that the scissor shift, which is *)
(* a multiple of half an eV, is subtracted exactly.                         *)
(*                                                                         *)
(* Processes.  The caller makes one call at a time.  get_energies with     *)
(* more than one job hands chunks of k-points to worker processes; what a  *)
(* worker finds in the module-level registry depends on how the platform   *)
(* starts processes (start_method): a forked worker holds a copy of the    *)
(* caller's registry, a spawned one the empty registry of a fresh import.  *)
(*                                                                         *)
(* Specifications.  Spec: two instances with well-formed files, all        *)
(* requests.  SpecLifecycle: instances without a coefficient file or with  *)
(* a file that does not parse.  SpecFiles: truncated files and files       *)
(* without a full star.  SpecStars: the static parser called on a family   *)
(* of files with varying operations, symmetry counts and G-vectors.        *)
(***************************************************************************)
EXTENDS Integers, Sequences, FiniteSets, TLC

\* ------------------------------------------------------------------------
\* Small helpers
\* ------------------------------------------------------------------------

None == "None"

\* An optional integer: <<>> is None, <<x>> is x.
NoInt == <<>>
SomeInt(x) == <<x>>

\* The outcome of a call: an exception (its type, the function that raised it,
\* what its message reports) or a returned value.
Raise(exc, at, msg) == [ok |-> FALSE, exc |-> exc, at |-> at, msg |-> msg]

Return(val) == [ok |-> TRUE, val |-> val]

Abs(x) == IF x < 0 THEN -x ELSE x

Max2(a, b) == IF a >= b THEN a ELSE b

RECURSIVE SumSeq(_)
SumSeq(s) == IF s = <<>> THEN 0 ELSE Head(s) + SumSeq(Tail(s))

RECURSIVE MaxSeq(_)
MaxSeq(s) == IF Len(s) = 1 THEN s[1] ELSE Max2(Head(s), MaxSeq(Tail(s)))

RECURSIVE Gcd(_, _)
Gcd(a, b) == IF b = 0 THEN a ELSE Gcd(b, a % b)

RECURSIVE LcmUpTo(_)
LcmUpTo(n) == IF n <= 1 THEN 1 ELSE (LcmUpTo(n - 1) * n) \div Gcd(LcmUpTo(n - 1), n)

Dot3(a, b) == a[1] * b[1] + a[2] * b[2] + a[3] * b[3]

Zero3 == <<0, 0, 0>>

Zero33 == <<Zero3, Zero3, Zero3>>

\* amset.utils.general.outer on two 3-vectors.
outer(a, b) == [r \in 1..3 |-> [c \in 1..3 |-> a[r] * b[c]]]

\* v . M for a row vector v and a 3x3 matrix M (numpy's v.dot(M)).
VecMat(v, M) == [c \in 1..3 |-> v[1] * M[1][c] + v[2] * M[2][c] + v[3] * M[3][c]]

\* M . v for a 3x3 matrix M and a column vector v (numpy's M.dot(v)).
MatVec(M, v) == [r \in 1..3 |-> Dot3(M[r], v)]

\* cos and sin of n quarter turns.
Cos4(n) == CASE n % 4 = 0 -> 1 [] n % 4 = 2 -> -1 [] OTHER -> 0

Sin4(n) == CASE n % 4 = 1 -> 1 [] n % 4 = 3 -> -1 [] OTHER -> 0

\* ------------------------------------------------------------------------
\* Coefficient files
\* ------------------------------------------------------------------------

\* The symmetry line of the file always holds room for 192 operations.
NumFileSymOps == 192

I3 == <<1, 0, 0,  0, 1, 0,  0, 0, 1>>

NegI3 == <<-1, 0, 0,  0, -1, 0,  0, 0, -1>>

Mz == <<1, 0, 0,  0, 1, 0,  0, 0, -1>>

C2z == <<-1, 0, 0,  0, -1, 0,  0, 0, 1>>

\* A fourfold rotation about z, as the file stores it (not symmetric).
R4z == <<0, 1, 0,  -1, 0, 0,  0, 0, 1>>

RECURSIVE Flatten(_)
Flatten(ss) == IF ss = <<>> THEN <<>> ELSE Head(ss) \o Flatten(Tail(ss))

\* The third line of a file: the numbers of the given operations, row-major,
\* followed by zeros up to total numbers in all.
SymLine(ops) == [given |-> Flatten(ops), total |-> 9 * NumFileSymOps]

\* The j-th number of such a line.
SymLineAt(symline, j) == IF j <= Len(symline.given) THEN symline.given[j] ELSE 0

CellLine == <<1, 0, 0,  1, 2, 0,  0, 0, 1>>

\* A file: the header tokens, the cell line, the symmetry line, and the
\* remaining lines, each the sequence of numbers np.fromstring reads from it.
MkFile(ng, ops, rest) ==
    [header |-> <<0, ng, Len(ops), 0>>, cell |-> CellLine,
     symline |-> SymLine(ops), lines |-> rest]

\* Two G-vectors, inversion symmetry: the star of (1,0,0) is full.
FileFull ==
    MkFile(2, <<I3, NegI3>>,
           << <<0, 0, 0>>, <<1, 0, 0>>, <<2, 3>>, <<1, 2>>, <<3, -1>>, <<7, 7>> >>)

\* Four operations, G-vectors on the z axis: the largest star has 2 members.
FilePartial ==
    MkFile(2, <<I3, NegI3, Mz, C2z>>,
           << <<0, 0, 0>>, <<0, 0, 1>>, <<2, 3>>, <<1, 2>>, <<3, -1>> >>)

\* A mirror plane, G-vectors in the plane: every star has 1 member.
FileSingle ==
    MkFile(2, <<I3, Mz>>,
           << <<0, 0, 0>>, <<1, 0, 0>>, <<2, 3>>, <<1, 2>>, <<3, -1>> >>)

\* A fourfold axis: the star of (1,0,0) is full, with 4 members.
FileRot ==
    MkFile(2, <<I3, R4z, C2z, <<0, -1, 0,  1, 0, 0,  0, 0, 1>> >>,
           << <<0, 0, 0>>, <<1, 0, 0>>, <<2, 2>>, <<1, 2>> >>)

\* The file ends after the G-vectors: the min/max band line is missing.
FileNoBandLine ==
    MkFile(2, <<I3, NegI3>>, << <<0, 0, 0>>, <<1, 0, 0>> >>)

\* The file ends after the first of two coefficient lines.
FileShort ==
    MkFile(2, <<I3, NegI3>>,
           << <<0, 0, 0>>, <<1, 0, 0>>, <<2, 3>>, <<1, 2>> >>)

\* A G-vector line with two numbers.
FileBadVector ==
    MkFile(2, <<I3, NegI3>>,
           << <<0, 0, 0>>, <<1, 0>>, <<2, 3>>, <<1, 2>>, <<3, -1>> >>)

\* A header with three tokens.
FileBadHeader ==
    [header |-> <<0, 2, 2>>, cell |-> CellLine, symline |-> SymLine(<<I3, NegI3>>),
     lines |-> << <<0, 0, 0>>, <<1, 0, 0>>, <<2, 3>>, <<1, 2>>, <<3, -1>> >>]

FileNames ==
    {"full", "partial", "single", "rot", "nobandline", "short", "badvector",
     "badheader"}

Content(name) ==
    CASE name = "full" -> FileFull
      [] name = "partial" -> FilePartial
      [] name = "single" -> FileSingle
      [] name = "rot" -> FileRot
      [] name = "nobandline" -> FileNoBandLine
      [] name = "short" -> FileShort
      [] name = "badvector" -> FileBadVector
      [] name = "badheader" -> FileBadHeader

\* ------------------------------------------------------------------------
\* np.unique on the rows of trial, viewed as raw bytes
\* ------------------------------------------------------------------------

RECURSIVE Log2(_)
Log2(n) == IF n <= 1 THEN 0 ELSE 1 + Log2(n \div 2)

RECURSIVE Pow2(_)
Pow2(n) == IF n = 0 THEN 1 ELSE 2 * Pow2(n - 1)

\* The sort key of a small integer stored as a little-endian float64 and
\* compared bytewise: its six low bytes are 0, byte 6 holds the low exponent
\* bits and the top mantissa bits, byte 7 the sign and the high exponent bits.
F64Key(x) ==
    IF x = 0 THEN 0
    ELSE LET a == Abs(x)
             ex == Log2(a)
             top == (IF x < 0 THEN 32768 ELSE 0) + (1023 + ex) * 16
                    + ((a * 16) \div Pow2(ex) - 16)
         IN  (top % 256) * 256 + (top \div 256)

RowKey(v) == <<F64Key(v[1]), F64Key(v[2]), F64Key(v[3])>>

\* Bytewise order of two rows: lexicographic in the components' keys.
RowLeq(v, w) ==
    LET a == RowKey(v)
        b == RowKey(w)
    IN  \/ a[1] < b[1]
        \/ a[1] = b[1] /\ a[2] < b[2]
        \/ a[1] = b[1] /\ a[2] = b[2] /\ a[3] <= b[3]

RECURSIVE SortRows(_)
SortRows(S) ==
    IF S = {} THEN <<>>
    ELSE LET m == CHOOSE v \in S : \A w \in S : RowLeq(v, w)
         IN  <<m>> \o SortRows(S \ {m})

\* The distinct rows of a sequence of rows, sorted.
UniqueRows(rows) == SortRows({rows[n] : n \in 1..Len(rows)})

\* ------------------------------------------------------------------------
\* BoltzTraP1Interpolater._get_interpolation_parameters
\* ------------------------------------------------------------------------

\* np.fromstring(line, count=9).reshape((3, 3)): the first 9 numbers.
Reshape33(line) ==
    [r \in 1..3 |-> [c \in 1..3 |-> line[3 * (r - 1) + c]]]

\* np.transpose(..., axes=(0, 2, 1)) of the n-th 3x3 block of the line.
SymOp(symline, n) ==
    [r \in 1..3 |-> [c \in 1..3 |-> SymLineAt(symline, 9 * (n - 1) + 3 * (c - 1) + r)]]

\* sym_ops[:num_symmetries]
SymOps(symline, num_symmetries) ==
    [n \in 1..(IF num_symmetries <= NumFileSymOps THEN num_symmetries
               ELSE NumFileSymOps) |-> SymOp(symline, n)]

\* The variables of the loop over the lines after the symmetry line.
LoopStart(num_g_vectors) ==
    [num_g_vectors |-> num_g_vectors,
     g_vectors |-> [g \in 1..num_g_vectors |-> Zero3],
     coefficients |-> <<>>, iband |-> <<>>,
     min_band |-> 0, max_band |-> 0, err |-> FALSE, break |-> FALSE]

\* The coefficient line i: appended, and its index taken off iband.
CoefficientLine(st, l, left) ==
    [st EXCEPT !.coefficients = Append(@, l), !.iband = left, !.break = (Len(left) = 0)]

\* One step of the loop, on line l with enumerate index i.
ParseLine(st, i, l) ==
    IF i < st.num_g_vectors
    THEN IF Len(l) = 3
         THEN [st EXCEPT !.g_vectors[i + 1] = l]
         ELSE IF Len(l) = 1
              THEN [st EXCEPT !.g_vectors[i + 1] = <<l[1], l[1], l[1]>>]
              ELSE [st EXCEPT !.err = TRUE]
    ELSE IF i = st.num_g_vectors
    THEN IF Len(l) # 2
         THEN [st EXCEPT !.err = TRUE]
         ELSE [st EXCEPT !.min_band = l[1], !.max_band = l[2],
                         !.iband = [b \in 1..(l[2] - l[1] + 1) |->
                                        st.num_g_vectors + b]]
    ELSE IF \E j \in 1..Len(st.iband) : st.iband[j] = i
    THEN CoefficientLine(st, l, SelectSeq(st.iband, LAMBDA x : x # i))
    ELSE st

RECURSIVE ParseLines(_, _, _)
ParseLines(st, lines, i) ==
    IF i >= Len(lines) \/ st.err \/ st.break THEN st
    ELSE ParseLines(ParseLine(st, i, lines[i + 1]), lines, i + 1)

\* The distinct rows stg of trial, padded with zero rows.
PaddedStar(stg, num_symmetries) ==
    [nst |-> Len(stg),
     stg |-> stg \o [j \in 1..(num_symmetries - Len(stg)) |-> Zero3]]

\* calculate_star_function without np.unique: every row of trial is kept.
calculate_star_function_all(sym_ops, num_symmetries, g_vector) ==
    PaddedStar([n \in 1..Len(sym_ops) |-> MatVec(sym_ops[n], g_vector)], num_symmetries)

\* sym_ops holds the operations sym_ops[:num_symmetries] of the caller.
\* A component of trial that is zero is +0.0: the sum of the products starts
\* from +0.0, and +0.0 plus -0.0 is +0.0, so equal rows are equal bytewise.
calculate_star_function(sym_ops, num_symmetries, g_vector) ==
    PaddedStar(UniqueRows([n \in 1..Len(sym_ops) |-> MatVec(sym_ops[n], g_vector)]),
               num_symmetries)

NumStarVectors(star) == [nw \in DOMAIN star |-> star[nw].nst]

StarVectors(star) == [nw \in DOMAIN star |-> star[nw].stg]

StarVectorProducts(star_vectors, cell_matrix) ==
    [nw \in DOMAIN star_vectors |->
        [i \in DOMAIN star_vectors[nw] |-> VecMat(star_vectors[nw][i], cell_matrix)]]

\* np.zeros((num_g_vectors, max(num_star_vectors), 3, 3)), filled for
\* i in range(num_star_vectors[nw]).
StarVectorProductsSq(num_star_vectors, star_vector_products) ==
    [nw \in DOMAIN num_star_vectors |->
        [i \in 1..MaxSeq(num_star_vectors) |->
            IF i <= num_star_vectors[nw]
            THEN outer(star_vector_products[nw][i], star_vector_products[nw][i])
            ELSE Zero33]]

BoltzTraP1Parameters(num_symmetries, st, num_star_vectors, star_vectors, star_vector_products) ==
    [num_symmetries |-> num_symmetries,
     coefficients |-> st.coefficients,
     min_band |-> st.min_band, max_band |-> st.max_band,
     allowed_ibands |-> st.min_band..st.max_band,
     num_star_vectors |-> num_star_vectors,
     star_vectors |-> star_vectors,
     star_vector_products |-> star_vector_products,
     star_vector_products_sq |->
         StarVectorProductsSq(num_star_vectors, star_vector_products)]

\* The lines after the loops over nw, given the star of every G-vector.
ParametersFromStars(num_symmetries, cell_matrix, st, star) ==
    BoltzTraP1Parameters(num_symmetries, st, NumStarVectors(star), StarVectors(star),
                         StarVectorProducts(StarVectors(star), cell_matrix))

ParseError == Raise("ValueError", "_get_interpolation_parameters", <<>>)

\* The lines after the file is read: st is what the loop over its lines left.
ParametersFromLines(num_symmetries, cell_matrix, sym_ops, st) ==
    IF st.err \/ st.num_g_vectors = 0
    THEN ParseError
    ELSE Return(ParametersFromStars(num_symmetries, cell_matrix, st,
             [nw \in 1..st.num_g_vectors |->
                 calculate_star_function(sym_ops, num_symmetries, st.g_vectors[nw])]))

_get_interpolation_parameters(file) ==
    IF Len(file.header) # 4 \/ Len(file.cell) < 9
       \/ file.symline.total < 9 * NumFileSymOps
    THEN ParseError
    ELSE ParametersFromLines(file.header[3], Reshape33(file.cell),
                             SymOps(file.symline, file.header[3]),
                             ParseLines(LoopStart(file.header[2]), file.lines, 0))

\* The parameters of every file of the catalogue, parsed once.
Parsed == [name \in FileNames |-> _get_interpolation_parameters(Content(name))]

\* ------------------------------------------------------------------------
\* _get_energy_wrapper
\* ------------------------------------------------------------------------

\* The common denominator of the quotients by num_star_vectors: the least
\* common multiple of every star size a file of the catalogue can give.
Den ==
    LcmUpTo(CHOOSE s \in {Content(n).header[3] : n \in FileNames} :
                \A m \in FileNames : Content(m).header[3] <= s)

\* K / x for the positive constant K of the effective mass: the sign and the
\* magnitude of the denominator (<<1, 0>> is the infinity numpy gives for 0).
Recip(x) == IF x = 0 THEN <<1, 0>> ELSE <<IF x < 0 THEN -1 ELSE 1, Abs(x)>>

\* The column j of the coefficients: the whole vector when it is 1-D.
CoefColumn(coefficients, j) ==
    IF coefficients.dim = 1 THEN coefficients.rows
    ELSE [b \in 1..Len(coefficients.rows) |-> coefficients.rows[b][j]]

NumColumns(coefficients) ==
    IF coefficients.dim = 1 THEN 1 ELSE Len(coefficients.rows[1])

\* Whether np.dot of an array whose last axis has n entries with the
\* coefficients is defined.
DotAligned(n, coefficients) ==
    /\ Len(coefficients.rows) = n
    /\ coefficients.dim = 2 =>
           \A b \in 1..Len(coefficients.rows) :
               Len(coefficients.rows[b]) = Len(coefficients.rows[1])

\* star_vector_products_sq * -cos_arg[:, :, newaxis, newaxis] under numpy's
\* broadcasting of the slot axis: the entry of G-vector g paired with slot i.
BroadcastSq(parameters, g, i) ==
    IF Len(parameters.star_vector_products_sq[g]) = 1
    THEN parameters.star_vector_products_sq[g][1]
    ELSE parameters.star_vector_products_sq[g][i]

BroadcastOk(parameters) ==
    \/ Len(parameters.star_vector_products_sq[1]) = parameters.num_symmetries
    \/ Len(parameters.star_vector_products_sq[1]) = 1
    \/ parameters.num_symmetries = 1

\* arg, in quarter turns.
Arg(parameters, kpoint) ==
    [g \in DOMAIN parameters.star_vectors |->
        [i \in DOMAIN parameters.star_vectors[g] |->
            Dot3(parameters.star_vectors[g][i], kpoint)]]

\* Den / num_star_vectors[g]
Scale(parameters, g) == Den \div parameters.num_star_vectors[g]

\* Den * spwre
Spwre(parameters, arg) ==
    [g \in DOMAIN arg |->
        (SumSeq([i \in DOMAIN arg[g] |-> Cos4(arg[g][i])])
         - (parameters.num_symmetries - parameters.num_star_vectors[g]))
        * Scale(parameters, g)]

\* Den * dspwre
Dspwre(parameters, arg) ==
    [g \in DOMAIN arg |-> [c \in 1..3 |->
        SumSeq([i \in DOMAIN arg[g] |->
            parameters.star_vector_products[g][i][c] * Sin4(arg[g][i])])
        * Scale(parameters, g)]]

\* Den * ddspwre
Ddspwre(parameters, arg) ==
    [g \in DOMAIN arg |-> [a \in 1..3 |-> [b \in 1..3 |->
        SumSeq([i \in DOMAIN arg[g] |->
            BroadcastSq(parameters, g, i)[a][b] * (-Cos4(arg[g][i]))])
        * Scale(parameters, g)]]]

\* spwre.dot(coefficients) * Ry_to_eV, one entry per column.
Energy(spwre, coefficients) ==
    [j \in 1..NumColumns(coefficients) |->
        <<SumSeq([g \in DOMAIN spwre |-> spwre[g] * CoefColumn(coefficients, j)[g]]), 0>>]

\* abs(np.dot(matrix_norm, np.dot(dspwre.T, coefficients))), in units of the
\* conversion constants over the norm of the matrix.
Velocity(dspwre, coefficients, matrix) ==
    [j \in 1..NumColumns(coefficients) |->
        [r \in 1..3 |->
            Abs(Dot3(matrix[r],
                     [c \in 1..3 |->
                         SumSeq([g \in DOMAIN dspwre |->
                             dspwre[g][c] * CoefColumn(coefficients, j)[g]])]))]]

\* K / np.dot(ddspwre.T, coefficients)
EffectiveMass(ddspwre, coefficients) ==
    [j \in 1..NumColumns(coefficients) |->
        [a \in 1..3 |-> [b \in 1..3 |->
            Recip(SumSeq([g \in DOMAIN ddspwre |->
                      ddspwre[g][b][a] * CoefColumn(coefficients, j)[g]]))]]]

\* One entry of to_return.
Item(q, coefficients, val) == [q |-> q, dim |-> coefficients.dim, val |-> val]

\* The body of _get_energy_wrapper after the registry lookup and arg.
Evaluate(parameters, coefficients, matrix, arg, return_velocity, return_effective_mass) ==
    IF ~DotAligned(Len(parameters.star_vectors), coefficients)
    THEN Raise("ValueError", "_get_energy_wrapper", <<"shapes not aligned">>)
    ELSE IF return_effective_mass /\ ~BroadcastOk(parameters)
    THEN Raise("ValueError", "_get_energy_wrapper", <<"could not be broadcast">>)
    ELSE Return(<<Item("energy", coefficients, Energy(Spwre(parameters, arg), coefficients))>>
                \o (IF return_velocity
                    THEN <<Item("velocity", coefficients,
                                Velocity(Dspwre(parameters, arg), coefficients, matrix))>>
                    ELSE <<>>)
                \o (IF return_effective_mass
                    THEN <<Item("effective_mass", coefficients,
                                EffectiveMass(Ddspwre(parameters, arg), coefficients))>>
                    ELSE <<>>))

_get_energy_wrapper(registry, coefficients, parameters_id, matrix, kpoint, return_velocity, return_effective_mass) ==
    IF parameters_id \notin DOMAIN registry
    THEN Raise("KeyError", "_get_energy_wrapper", <<>>)
    ELSE Evaluate(registry[parameters_id], coefficients, matrix,
                  Arg(registry[parameters_id], kpoint),
                  return_velocity, return_effective_mass)

\* ------------------------------------------------------------------------
\* Bounds and inputs
\* ------------------------------------------------------------------------

\* The longest k-point sequence passed to get_energies.
MaxKpoints == 2

\* The largest scissor, in eV.
MaxScissor == 1

\* The most worker processes an instance is configured with.
MaxJobs == 2

\* The most runs of the external generator per instance.
MaxGenRuns == 2

Insts == {1, 2}

\* id(self): distinct for distinct live objects, never 0.
id(i) == 4096 * i

\* band_structure.structure.lattice.matrix
LatticeMatrix == <<<<1, 0, 0>>, <<0, 1, 0>>, <<1, 0, 2>>>>

\* k-points, in quarters of the reciprocal lattice vectors.
Kpts == {<<1, 0, 0>>, <<2, 1, 0>>}

RECURSIVE SeqsUpTo(_, _)
SeqsUpTo(S, n) ==
    IF n = 0 THEN {<<>>}
    ELSE SeqsUpTo(S, n - 1) \cup
         {Append(s, x) : s \in {t \in SeqsUpTo(S, n - 1) : Len(t) = n - 1}, x \in S}

KpointSeqs == SeqsUpTo(Kpts, MaxKpoints)

\* The iband argument: an int, a list of ints, or None.
IntBand(b) == [kind |-> "int", v |-> <<b>>]

ListBand(l) == [kind |-> "list", v |-> l]

NoneBand == [kind |-> "None", v |-> <<>>]

Ibands == {IntBand(b) : b \in 0..4} \cup {ListBand(<<2, 3>>), ListBand(<<3, 5>>), NoneBand}

Scissors == 0..MaxScissor

\* is_cb: True, False or None.
IsCbs == {"True", "False", None}

\* The path the generator leaves its file at, under the instance's calc_dir.
GenPath(i) == IF i = 1 THEN "calc1/fort.123" ELSE "calc2/fort.123"

\* What the external generator can leave at that path.
Absent == "absent"

GenOutcomes == {"full", Absent}

\* How multiprocessing starts a worker process: the platform's default.
StartMethods == {"fork", "spawn"}

Paths == FileNames \cup {GenPath(i) : i \in Insts}

VARIABLES
    _coeff_file,       \* self._coeff_file of each instance: a path or None
    _max_temperature,  \* self._max_temperature: <<>> (None) or <<t>>
    _n_jobs,           \* self._n_jobs, resolved at construction
    _parameters_id,    \* self._parameters_id: 0 (None) or id(self)
    _parameters,       \* the module-level registry: id -> parameters
    fs,                \* the file system: path -> name of the content, or Absent
    runs,              \* how often the external generator ran, per instance
    start_method,      \* multiprocessing's start method on this platform
    pool,              \* the get_energies call waiting in Pool.map, if any
    ret                \* the last completed call: arguments, outcome, events

vars == <<_coeff_file, _max_temperature, _n_jobs, _parameters_id, _parameters,
          fs, runs, start_method, pool, ret>>

\* The events of one call: runs of the generator, parses of a coefficient
\* file, band lookups, tasks handed to the pool, k-points evaluated.
NoEvents == [generate |-> 0, parse |-> 0, lookup |-> 0, dispatch |-> 0, evaluate |-> 0]

\* The program state an operation works on, with the events so far.
State == [cf |-> _coeff_file, pid |-> _parameters_id, reg |-> _parameters,
          fs |-> fs, runs |-> runs, ev |-> NoEvents]

SetState(s) ==
    /\ _coeff_file' = s.cf
    /\ _parameters_id' = s.pid
    /\ _parameters' = s.reg
    /\ fs' = s.fs
    /\ runs' = s.runs
    /\ UNCHANGED <<_max_temperature, _n_jobs, start_method>>

NoRet == [op |-> "none"]

NoPool == [active |-> FALSE]

\* ------------------------------------------------------------------------
\* BoltzTraP1Interpolater: initialize, parameters, the band lookup
\* ------------------------------------------------------------------------

\* A step of an operation: the state it leaves and its outcome so far.
Step(s, out) == [state |-> s, out |-> out]

\* Python's "not x" for a path: None and the empty string.
NotPath(x) == x = None \/ x = ""

\* AbstractInterpolater.log_raise: logs the message and raises.
log_raise(exc, at, msg) == Raise(exc, at, msg)

\* _generate_coeff_file after btr.run(): the check for the file.
GeneratorRan(s, i) ==
    IF s.fs[GenPath(i)] = Absent
    THEN Step(s, log_raise("RuntimeError", "_generate_coeff_file",
                           <<"Coefficient file was not generated properly">>))
    ELSE Step(s, Return(GenPath(i)))

\* outcome is what the external generator leaves at the expected path.
_generate_coeff_file(s, i, outcome) ==
    IF _max_temperature[i] = NoInt
    THEN \* max([None, 300]) raises before the runner is built
         Step(s, Raise("TypeError", "_generate_coeff_file", <<>>))
    ELSE GeneratorRan([s EXCEPT !.runs[i] = @ + 1, !.ev.generate = @ + 1,
                                !.fs[GenPath(i)] = outcome], i)

\* f with key k set to v.
Put(f, k, v) == [x \in (DOMAIN f) \cup {k} |-> IF x = k THEN v ELSE f[x]]

\* _parameters[self._parameters_id] = p, or the exception the parser raised.
StoreParameters(s, i, p) ==
    IF ~p.ok THEN Step(s, p)
    ELSE Step([s EXCEPT !.reg = Put(@, s.pid[i], p.val)], Return(None))

\* self._get_interpolation_parameters(self._coeff_file)
LoadParameters(s, i) ==
    IF s.fs[s.cf[i]] = Absent
    THEN Step(s, Raise("FileNotFoundError", "_get_interpolation_parameters", <<>>))
    ELSE StoreParameters([s EXCEPT !.ev.parse = @ + 1], i, Parsed[s.fs[s.cf[i]]])

\* initialize from "self._parameters_id = id(self)" on.
SetParametersId(s, i) == LoadParameters([s EXCEPT !.pid[i] = id(i)], i)

\* self._coeff_file = self._generate_coeff_file(), and the rest.
SetCoeffFile(g, i) ==
    IF ~g.out.ok THEN g
    ELSE SetParametersId([g.state EXCEPT !.cf[i] = g.out.val], i)

\* A variant of initialize that runs the generator whether or not a
\* coefficient file is set.
initialize_regenerate(s, i, outcome) ==
    SetCoeffFile(_generate_coeff_file(s, i, outcome), i)

initialize(s, i, outcome) ==
    IF NotPath(s.cf[i])
    THEN SetCoeffFile(_generate_coeff_file(s, i, outcome), i)
    ELSE SetParametersId(s, i)

\* return _parameters[self._parameters_id]
RegistryEntry(r, i) ==
    IF ~r.out.ok THEN r
    ELSE IF r.state.pid[i] \notin DOMAIN r.state.reg
    THEN Step(r.state, Raise("KeyError", "parameters", <<>>))
    ELSE Step(r.state, Return(r.state.reg[r.state.pid[i]]))

\* The parameters property.
parameters(s, i, outcome) ==
    IF s.pid[i] = 0
    THEN RegistryEntry(initialize(s, i, outcome), i)
    ELSE RegistryEntry(Step(s, Return(None)), i)

\* sorted() of a set of integers.
RECURSIVE sorted(_)
sorted(S) ==
    IF S = {} THEN <<>>
    ELSE LET m == CHOOSE x \in S : \A y \in S : x <= y
         IN  <<m>> \o sorted(S \ {m})

\* self.parameters.coefficients[iband], and [0] of it for a single band.
TakeRows(s, params, norm) ==
    IF \E j \in 1..Len(norm) : norm[j] + 1 > Len(params.coefficients)
    THEN Step(s, Raise("IndexError", "_get_interpolation_coefficients", <<>>))
    ELSE IF Len(norm) = 1
    THEN Step(s, Return([dim |-> 1, rows |-> params.coefficients[norm[1] + 1]]))
    ELSE Step(s, Return([dim |-> 2,
                         rows |-> [j \in 1..Len(norm) |->
                                      params.coefficients[norm[j] + 1]]]))

\* A variant of CheckBands without the subset check.
CheckBandsSkipped(s, params, bands) ==
    TakeRows(s, params, [j \in 1..Len(bands) |-> bands[j] - params.min_band])

\* The subset check and the normalisation to the minimum band.
CheckBands(s, params, bands) ==
    IF ~({bands[j] : j \in 1..Len(bands)} \subseteq params.allowed_ibands)
    THEN Step(s, Raise("ValueError", "_get_interpolation_coefficients",
                       <<"At least one band is not in range",
                         params.min_band, params.max_band>>))
    ELSE TakeRows(s, params, [j \in 1..Len(bands) |-> bands[j] - params.min_band])

\* "if not iband: iband = sorted(self.parameters.allowed_ibands)"
DefaultBands(r, iband) ==
    IF ~r.out.ok THEN r
    ELSE CheckBands(r.state, r.out.val,
                    IF iband.v = <<>> THEN sorted(r.out.val.allowed_ibands)
                    ELSE iband.v)

_get_interpolation_coefficients(s, i, iband, outcome) ==
    DefaultBands(parameters([s EXCEPT !.ev.lookup = @ + 1], i, outcome), iband)

\* ------------------------------------------------------------------------
\* get_energy and get_energies
\* ------------------------------------------------------------------------

\* "if len(to_return) == 1: return to_return[0] else: return tuple(to_return)"
Unwrap(to_return) == [tuple |-> Len(to_return) # 1, items |-> to_return]

\* The return statement of get_energy, or the exception of the evaluator.
ReturnEnergy(s, w) ==
    IF ~w.ok THEN Step(s, w) ELSE Step(s, Return(Unwrap(w.val)))

\* The call of _get_energy_wrapper: its arguments are evaluated left to
\* right, self._parameters_id after the band lookup c.
CallWrapper(c, i, kpoint, return_velocity, return_effective_mass) ==
    IF ~c.out.ok THEN c
    ELSE ReturnEnergy([c.state EXCEPT !.ev.evaluate = @ + 1],
                      _get_energy_wrapper(c.state.reg, c.out.val, c.state.pid[i],
                                          LatticeMatrix, kpoint,
                                          return_velocity, return_effective_mass))

get_energy(s, i, kpoint, iband, return_velocity, return_effective_mass, outcome) ==
    CallWrapper(_get_interpolation_coefficients(s, i, iband, outcome), i, kpoint,
                return_velocity, return_effective_mass)

\* A variant of Shift with the opposite sign convention: the conduction band
\* shifted by +scissor/2 before the subtraction.
ShiftReversed(scissor, is_cb) == (IF is_cb = "True" THEN 1 ELSE -1) * scissor

\* The shift of get_energies, in half eV: (-1 if is_cb else 1) * scissor / 2.
Shift(scissor, is_cb) == (IF is_cb = "True" THEN -1 ELSE 1) * scissor

\* fun = partial(_get_energy_wrapper, coefficients, self._parameters_id, ...)
Partial(c, i, shift, return_effective_mass) ==
    IF ~c.out.ok THEN c
    ELSE Step(c.state,
              Return([coefficients |-> c.out.val,
                      parameters_id |-> c.state.pid[i],
                      return_effective_mass |-> return_effective_mass,
                      shift |-> shift]))

\* A variant of get_energies_fun with the scissor check after the band lookup.
LateScissorCheck(c, i, scissor, is_cb, return_effective_mass) ==
    IF c.out.ok /\ scissor # 0 /\ is_cb = None
    THEN Step(c.state,
              Raise("ValueError", "get_energies", <<"To apply scissor set is_cb.">>))
    ELSE Partial(c, i, Shift(scissor, is_cb), return_effective_mass)

get_energies_fun_late(s, i, iband, scissor, is_cb, return_effective_mass, outcome) ==
    LateScissorCheck(_get_interpolation_coefficients(s, i, iband, outcome), i,
                     scissor, is_cb, return_effective_mass)

\* The part of get_energies before the map: the scissor check, the band
\* lookup, and what the partial function fun holds.
get_energies_fun(s, i, iband, scissor, is_cb, return_effective_mass, outcome) ==
    IF scissor # 0 /\ is_cb = None
    THEN Step(s, Raise("ValueError", "get_energies", <<"To apply scissor set is_cb.">>))
    ELSE Partial(_get_interpolation_coefficients(s, i, iband, outcome), i,
                 Shift(scissor, is_cb), return_effective_mass)

\* fun(kpoint), run in a process whose registry is reg.
fun(reg, f, kpoint) ==
    _get_energy_wrapper(reg, f.coefficients, f.parameters_id, LatticeMatrix, kpoint,
                        TRUE, f.return_effective_mass)

\* r[0] - shift
Shifted(energy, shift) ==
    [energy EXCEPT !.val = [j \in DOMAIN @ |-> <<@[j][1], @[j][2] - shift>>]]

\* A variant of to_return that appends the next unread entry of each result,
\* r[1], for the effective masses when the velocities were not asked for.
to_return_next_entry(results, shift, return_velocity, return_effective_mass) ==
    Unwrap(<<[n \in 1..Len(results) |-> Shifted(results[n][1], shift)]>>
           \o (IF return_velocity
               THEN <<[n \in 1..Len(results) |-> results[n][2]]>>
               ELSE <<>>)
           \o (IF return_effective_mass
               THEN <<[n \in 1..Len(results) |->
                         results[n][IF return_velocity THEN 3 ELSE 2]]>>
               ELSE <<>>))

\* The lines after the map: the lists built from results.
to_return(results, shift, return_velocity, return_effective_mass) ==
    Unwrap(<<[n \in 1..Len(results) |-> Shifted(results[n][1], shift)]>>
           \o (IF return_velocity
               THEN <<[n \in 1..Len(results) |-> results[n][2]]>>
               ELSE <<>>)
           \o (IF return_effective_mass
               THEN <<[n \in 1..Len(results) |-> results[n][3]]>>
               ELSE <<>>))

\* The map stops at the first k-point that raises.
FirstRaise(s, res, first) ==
    Step([s EXCEPT !.ev.evaluate = @ + first], res[first])

\* The list of the results res of the k-points, in their order.
MapResults(s, res) ==
    IF \A n \in 1..Len(res) : res[n].ok
    THEN Step([s EXCEPT !.ev.evaluate = @ + Len(res)],
              Return([n \in 1..Len(res) |-> res[n].val]))
    ELSE FirstRaise(s, res, CHOOSE n \in 1..Len(res) :
                                /\ ~res[n].ok
                                /\ \A m \in 1..(n - 1) : res[m].ok)

\* list(map(fun, kpoints)) in a process whose registry is s.reg.
MapSequential(s, f, kpoints) ==
    MapResults(s, [n \in 1..Len(kpoints) |-> fun(s.reg, f, kpoints[n])])

\* The last lines of get_energies, after the map m.
Finish(m, shift, return_velocity, return_effective_mass) ==
    IF ~m.out.ok THEN m
    ELSE Step(m.state,
              Return(to_return(m.out.val, shift, return_velocity, return_effective_mass)))

\* get_energies with one job, from the map on.
SequentialFrom(f, kpoints, return_velocity, return_effective_mass) ==
    IF ~f.out.ok THEN f
    ELSE Finish(MapSequential(f.state, f.out.val, kpoints), f.out.val.shift,
                return_velocity, return_effective_mass)

get_energies_sequential(s, i, kpoints, iband, scissor, is_cb, return_velocity, return_effective_mass, outcome) ==
    SequentialFrom(get_energies_fun(s, i, iband, scissor, is_cb,
                                    return_effective_mass, outcome),
                   kpoints, return_velocity, return_effective_mass)

\* ------------------------------------------------------------------------
\* multiprocessing.Pool(n_jobs).map(fun, kpoints)
\* ------------------------------------------------------------------------

\* Pool.map cuts the k-points into chunks of this many.
ChunkSize(n, njobs) == (n \div (4 * njobs)) + (IF n % (4 * njobs) # 0 THEN 1 ELSE 0)

NumChunks(n, cs) == IF n = 0 THEN 0 ELSE (n + cs - 1) \div cs

\* The k-point indexes of chunk c.
ChunkFirst(c, cs) == (c - 1) * cs + 1

ChunkLast(c, cs, n) == IF c * cs <= n THEN c * cs ELSE n

\* The results of a chunk, whose first k-point has index first, put into the
\* map's value: each at the index of its k-point.
Collect(value, first, results) ==
    [n \in (DOMAIN value) \cup (first..(first + Len(results) - 1)) |->
        IF n \in DOMAIN value THEN value[n] ELSE results[n - first + 1]]

\* The module-level registry of a worker process: a forked worker inherits
\* the caller's memory as it is when the pool is created, after the band
\* lookup; a spawned worker imports the module afresh, "_parameters = {}".
WorkerRegistry(method, reg) == IF method = "fork" THEN reg ELSE <<>>

\* The pool with its task queue filled: nc chunks of cs k-points.
PoolOf(s, i, args, f, cs, nc) ==
    [active |-> TRUE, inst |-> i, args |-> args, f |-> f,
     reg |-> WorkerRegistry(start_method, s.reg), chunksize |-> cs,
     taskq |-> [c \in 1..nc |-> c],
     busy |-> [w \in 1.._n_jobs[i] |-> 0],
     value |-> <<>>, left |-> nc, failure |-> <<>>,
     ev |-> [s.ev EXCEPT !.dispatch = nc]]

PoolStart(s, i, args, f) ==
    PoolOf(s, i, args, f, ChunkSize(Len(args.kpoints), _n_jobs[i]),
           NumChunks(Len(args.kpoints), ChunkSize(Len(args.kpoints), _n_jobs[i])))

\* ------------------------------------------------------------------------
\* The state machine
\* ------------------------------------------------------------------------

\* The constructor arguments of an instance.
Config(coeff_file, max_temperature, n_jobs) ==
    [coeff_file |-> coeff_file, max_temperature |-> max_temperature, n_jobs |-> n_jobs]

\* The state after construction of the instances, instance i with one of
\* configs[i].
InitWith(configs) ==
    /\ \E c \in [Insts -> UNION {configs[i] : i \in Insts}] :
        /\ \A i \in Insts : c[i] \in configs[i]
        /\ _coeff_file = [i \in Insts |-> c[i].coeff_file]
        /\ _max_temperature = [i \in Insts |-> c[i].max_temperature]
        /\ _n_jobs = [i \in Insts |-> c[i].n_jobs]
    /\ _parameters_id = [i \in Insts |-> 0]
    /\ _parameters = <<>>
    /\ fs = [p \in Paths |-> IF p \in FileNames THEN p ELSE Absent]
    /\ runs = [i \in Insts |-> 0]
    /\ start_method \in StartMethods
    /\ pool = NoPool
    /\ ret = NoRet

\* Whether a call on instance i now would run the external generator.
WouldGenerate(i) ==
    /\ NotPath(_coeff_file[i])
    /\ _max_temperature[i] # NoInt

\* What the generator can leave behind in a call on instance i.
Outcomes(i) == IF WouldGenerate(i) THEN GenOutcomes ELSE {Absent}

\* The caller makes one call at a time, and takes its outcome before the next.
Idle == ~pool.active /\ ret = NoRet

CanCall(i) ==
    /\ Idle
    /\ WouldGenerate(i) => runs[i] < MaxGenRuns

\* The call returns or raises: r is the state it leaves and its outcome.
Done(op, i, args, r) ==
    /\ SetState(r.state)
    /\ pool' = pool
    /\ ret' = [op |-> op, inst |-> i, args |-> args, out |-> r.out, ev |-> r.state.ev]

Initialize(i) ==
    /\ CanCall(i)
    /\ \E outcome \in Outcomes(i) :
        Done("initialize", i, <<>>, initialize(State, i, outcome))

GetEnergy(i, kpoint, iband, return_velocity, return_effective_mass) ==
    /\ CanCall(i)
    /\ \E outcome \in Outcomes(i) :
        Done("get_energy", i,
             [kpoint |-> kpoint, iband |-> iband, return_velocity |-> return_velocity,
              return_effective_mass |-> return_effective_mass],
             get_energy(State, i, kpoint, iband, return_velocity,
                        return_effective_mass, outcome))

\* get_energies from "if self._n_jobs == 1" on: f is what precedes it.
Map(i, args, f) ==
    IF ~f.out.ok \/ _n_jobs[i] = 1
    THEN Done("get_energies", i, args,
              SequentialFrom(f, args.kpoints, args.return_velocity,
                             args.return_effective_mass))
    ELSE /\ SetState(f.state)
         /\ pool' = PoolStart(f.state, i, args, f.out.val)
         /\ ret' = NoRet

GetEnergies(i, kpoints, iband, scissor, is_cb, return_velocity, return_effective_mass) ==
    /\ CanCall(i)
    /\ \E outcome \in Outcomes(i) :
        Map(i,
            [kpoints |-> kpoints, iband |-> iband, scissor |-> scissor,
             is_cb |-> is_cb, return_velocity |-> return_velocity,
             return_effective_mass |-> return_effective_mass],
            get_energies_fun(State, i, iband, scissor, is_cb,
                             return_effective_mass, outcome))

\* An idle worker takes the next chunk from the task queue.
WorkerGet(w) ==
    /\ pool.active
    /\ w \in DOMAIN pool.busy
    /\ pool.busy[w] = 0
    /\ pool.taskq # <<>>
    /\ pool' = [pool EXCEPT !.busy[w] = Head(pool.taskq), !.taskq = Tail(@)]
    /\ UNCHANGED <<_coeff_file, _max_temperature, _n_jobs, _parameters_id,
                   _parameters, fs, runs, start_method, ret>>

\* The map's result handler takes the outcome m of the chunk worker w ran,
\* whose first k-point has index first.
ChunkDone(w, first, m) ==
    pool' = [pool EXCEPT
        !.busy[w] = 0,
        !.left = @ - 1,
        !.ev = m.state.ev,
        !.value = IF m.out.ok /\ pool.failure = <<>>
                  THEN Collect(@, first, m.out.val) ELSE @,
        !.failure = IF ~m.out.ok /\ @ = <<>> THEN <<m.out>> ELSE @]

\* A worker finishes its chunk and the result reaches the calling process.
WorkerPut(w) ==
    /\ pool.active
    /\ w \in DOMAIN pool.busy
    /\ pool.busy[w] # 0
    /\ ChunkDone(w, ChunkFirst(pool.busy[w], pool.chunksize),
                 MapSequential([reg |-> pool.reg, ev |-> pool.ev], pool.f,
                               SubSeq(pool.args.kpoints,
                                      ChunkFirst(pool.busy[w], pool.chunksize),
                                      ChunkLast(pool.busy[w], pool.chunksize,
                                                Len(pool.args.kpoints)))))
    /\ UNCHANGED <<_coeff_file, _max_temperature, _n_jobs, _parameters_id,
                   _parameters, fs, runs, start_method, ret>>

\* What Pool.map returns or raises once every chunk is in.
MapOutcome == IF pool.failure # <<>> THEN pool.failure[1] ELSE Return(pool.value)

\* Every chunk is in: map returns (or raises), the pool is closed, and
\* get_energies builds what it returns.
PoolReturn ==
    /\ pool.active
    /\ pool.left = 0
    /\ ret' = [op |-> "get_energies", inst |-> pool.inst, args |-> pool.args,
               out |-> Finish(Step([ev |-> pool.ev], MapOutcome), pool.f.shift,
                              pool.args.return_velocity,
                              pool.args.return_effective_mass).out,
               ev |-> pool.ev]
    /\ pool' = NoPool
    /\ UNCHANGED <<_coeff_file, _max_temperature, _n_jobs, _parameters_id,
                   _parameters, fs, runs, start_method>>

\* The caller takes the outcome of the call it made.
Receive ==
    /\ ret # NoRet
    /\ ret' = NoRet
    /\ UNCHANGED <<_coeff_file, _max_temperature, _n_jobs, _parameters_id,
                   _parameters, fs, runs, start_method, pool>>

\* The caller, idle, calls initialize on some instance.
CallInitialize ==
    /\ Idle
    /\ \E i \in Insts : Initialize(i)

\* The caller, idle, calls get_energy with arguments from the given sets.
CallGetEnergy(kpts, ibands, flags) ==
    /\ Idle
    /\ \E i \in Insts, kpoint \in kpts, iband \in ibands, fl \in flags :
          GetEnergy(i, kpoint, iband, fl[1], fl[2])

\* The caller, idle, calls get_energies with arguments from the given sets.
CallGetEnergies(kseqs, ibands, scissors, flags) ==
    /\ Idle
    /\ \E i \in Insts, kpoints \in kseqs, iband \in ibands, scissor \in scissors,
          is_cb \in IsCbs, fl \in flags :
          GetEnergies(i, kpoints, iband, scissor, is_cb, fl[1], fl[2])

\* The next-state relation with the calls' arguments drawn from the given sets.
NextWith(kpts, kseqs, ibands, scissors, flags) ==
    \/ CallInitialize
    \/ CallGetEnergy(kpts, ibands, flags)
    \/ CallGetEnergies(kseqs, ibands, scissors, flags)
    \/ \E w \in 1..MaxJobs : WorkerGet(w)
    \/ \E w \in 1..MaxJobs : WorkerPut(w)
    \/ PoolReturn
    \/ Receive

Flags == BOOLEAN \X BOOLEAN

\* Evaluation: both instances are given a well-formed file.
ConfigsEval ==
    [i \in Insts |-> IF i = 1 THEN {Config("full", NoInt, n) : n \in 1..MaxJobs}
                     ELSE {Config("rot", NoInt, 1)}]

Init == InitWith(ConfigsEval)

Next == NextWith(Kpts, KpointSeqs, Ibands, Scissors, Flags)

Spec == Init /\ [][Next]_vars

\* ------------------------------------------------------------------------
\* Life cycle: instances without a coefficient file, or with a file that
\* does not parse, next to one that evaluates in a pool
\* ------------------------------------------------------------------------

ConfigsLifecycle ==
    [i \in Insts |->
        IF i = 1
        THEN {Config(None, t, 1) : t \in {NoInt, SomeInt(300)}}
             \cup {Config("", SomeInt(300), MaxJobs)}
        ELSE {Config("full", NoInt, MaxJobs), Config("badvector", NoInt, 1)}]

KptsLifecycle == {<<1, 0, 0>>}

IbandsLifecycle == {IntBand(2), IntBand(4), ListBand(<<3, 5>>), NoneBand}

FlagsLifecycle == {<<FALSE, FALSE>>, <<TRUE, TRUE>>}

InitLifecycle == InitWith(ConfigsLifecycle)

NextLifecycle ==
    NextWith(KptsLifecycle, SeqsUpTo(KptsLifecycle, MaxKpoints), IbandsLifecycle,
             Scissors, FlagsLifecycle)

SpecLifecycle == InitLifecycle /\ [][NextLifecycle]_vars

\* ------------------------------------------------------------------------
\* Files: instances given a truncated file, or one without a full star
\* ------------------------------------------------------------------------

ConfigsFiles ==
    [i \in Insts |->
        IF i = 1
        THEN {Config(p, NoInt, 1) : p \in {"nobandline", "short", "badheader", "single"}}
        ELSE {Config(p, NoInt, n) : p \in {"partial", "full"}, n \in {1, MaxJobs}}]

IbandsFiles == {IntBand(0), IntBand(2), IntBand(3), NoneBand}

InitFiles == InitWith(ConfigsFiles)

NextFiles ==
    NextWith(Kpts, SeqsUpTo(KptsLifecycle, MaxKpoints), IbandsFiles, {0}, Flags)

SpecFiles == InitFiles /\ [][NextFiles]_vars

\* ------------------------------------------------------------------------
\* Stars: the static method _get_interpolation_parameters called on files
\* whose operations, symmetry count and G-vectors are drawn from bounded sets
\* ------------------------------------------------------------------------

\* The most operations a file of the family gives before the zero padding.
MaxOps == 3

\* The symmetry counts of the family: 1..MaxSymmetries, and all 192.
MaxSymmetries == 4

NumSymmetries == (1..MaxSymmetries) \cup {NumFileSymOps}

StarOps == {I3, NegI3, Mz, R4z}

StarOpSeqs == SeqsUpTo(StarOps, MaxOps) \ {<<>>}

\* The G-vector lines of the family.
StarGVectors ==
    { << <<0, 0, 0>> >>, << <<-1, 0, 2>> >>,
      << <<0, 0, 0>>, <<1, 0, 0>> >>, << <<0, 0, 1>>, <<1, 1, 0>> >>,
      << <<1, 2, 3>>, <<0, 0, 0>> >> }

\* A file with the given symmetry count in its header, the given operations
\* in its symmetry line, the given G-vector lines, and one band.
StarFile(num_symmetries, ops, gs) ==
    [header |-> <<0, Len(gs), num_symmetries, 0>>, cell |-> CellLine,
     symline |-> SymLine(ops), lines |-> gs \o << <<1, 1>>, [g \in 1..Len(gs) |-> g] >>]

\* The caller, idle, calls the static method on a file; nothing else changes.
GetInterpolationParameters(file) ==
    /\ Idle
    /\ ret' = [op |-> "_get_interpolation_parameters", inst |-> 0,
               args |-> [file |-> file],
               out |-> _get_interpolation_parameters(file), ev |-> NoEvents]
    /\ UNCHANGED <<_coeff_file, _max_temperature, _n_jobs, _parameters_id,
                   _parameters, fs, runs, start_method, pool>>

\* The caller, idle, calls the static method on a file of the family.
CallGetInterpolationParameters ==
    /\ Idle
    /\ \E num_symmetries \in NumSymmetries, ops \in StarOpSeqs, gs \in StarGVectors :
          GetInterpolationParameters(StarFile(num_symmetries, ops, gs))

NextStars ==
    \/ CallGetInterpolationParameters
    \/ Receive

\* The static method reads no instance: both are constructed on one file.
ConfigsStars == [i \in Insts |-> {Config("full", NoInt, 1)}]

InitStars == InitWith(ConfigsStars)

SpecStars == InitStars /\ [][NextStars]_vars

\* ------------------------------------------------------------------------
\* Properties
\* ------------------------------------------------------------------------

\* The last call, if it was a call of op that has returned or raised.
Called(op) == ret.op = op

\* What get_energies gives in the calling process alone, with one job, for
\* the arguments of the last call but the given scissor.
Sequentially(scissor) ==
    get_energies_sequential(State, ret.inst, ret.args.kpoints, ret.args.iband,
                            scissor, ret.args.is_cb, ret.args.return_velocity,
                            ret.args.return_effective_mass, Absent).out

\* C1: whenever get_energies has completed on an instance with more than one
\* worker, what it returned or raised is what get_energies with one worker
\* gives for the same arguments, whatever order the workers finished in.
C1_PoolMatchesSequential ==
    (Called("get_energies") /\ _n_jobs[ret.inst] > 1) =>
        ret.out = Sequentially(ret.args.scissor)

\* The energies of the k-points in what get_energies returned.
Energies(out) == out.val.items[1]

\* Every energy of got is the energy of base plus by, in half eV.
ShiftedBy(got, base, by) ==
    /\ Len(got) = Len(base)
    /\ \A n \in 1..Len(got) :
        /\ DOMAIN got[n].val = DOMAIN base[n].val
        /\ \A j \in DOMAIN got[n].val :
            /\ got[n].val[j][1] = base[n].val[j][1]
            /\ got[n].val[j][2] = base[n].val[j][2] + by

\* A get_energies call with a positive scissor has returned.
Scissored == Called("get_energies") /\ ret.out.ok /\ ret.args.scissor > 0

\* C2, as the code has it: with scissor s > 0, every energy get_energies
\* returns is higher by s/2 than with scissor 0 when is_cb is True, and
\* lower by s/2 when is_cb is False.
C2_ScissorShift ==
    Scissored =>
        /\ Sequentially(0).ok
        /\ ShiftedBy(Energies(ret.out), Energies(Sequentially(0)),
                     IF ret.args.is_cb = "True" THEN ret.args.scissor
                     ELSE -ret.args.scissor)

\* C2, as stated: lower by s/2 when is_cb is True, higher by s/2 when False.
C2_AsStated ==
    Scissored =>
        /\ Sequentially(0).ok
        /\ ShiftedBy(Energies(ret.out), Energies(Sequentially(0)),
                     IF ret.args.is_cb = "True" THEN -ret.args.scissor
                     ELSE ret.args.scissor)

\* A conduction band was evaluated at two k-points with a positive scissor.
C2_Witness ==
    /\ Scissored
    /\ ret.args.is_cb = "True"
    /\ Len(ret.args.kpoints) = MaxKpoints

\* C6: every lookup the evaluator makes finds the parameters of the instance:
\* no worker runs a chunk with a key its registry lacks, and no call ends
\* with the evaluator's lookup failing.
C6_EvaluatorFindsParameters ==
    /\ pool.active =>
          \A w \in DOMAIN pool.busy :
              pool.busy[w] # 0 => pool.f.parameters_id \in DOMAIN pool.reg
    /\ (Called("get_energy") \/ Called("get_energies")) =>
          \/ ret.out.ok
          \/ ~(ret.out.exc = "KeyError" /\ ret.out.at = "_get_energy_wrapper")

\* The quantities get_energy and get_energies return for the flags, in order.
Quantities(return_velocity, return_effective_mass) ==
    <<"energy">> \o (IF return_velocity THEN <<"velocity">> ELSE <<>>)
                 \o (IF return_effective_mass THEN <<"effective_mass">> ELSE <<>>)

\* The n-th entry of every list of lists is the matching component of the
\* outcome single of get_energy, which holds the quantities kinds.
MatchesSingle(lists, n, single, kinds) ==
    /\ single.ok
    /\ Len(single.val.items) = Len(kinds)
    /\ \A c \in 1..Len(kinds) :
        /\ lists[c][n].q = kinds[c]
        /\ single.val.items[c].q = kinds[c]
        /\ lists[c][n] = single.val.items[c]

\* C7: when get_energies with scissor 0 returns, it returns one list per
\* requested quantity, in the order energies, velocities, effective masses,
\* and the n-th entry of each list is the matching component of get_energy
\* for the n-th k-point, the same band and the same flags.
C7_MatchesGetEnergy ==
    (Called("get_energies") /\ ret.out.ok /\ ret.args.scissor = 0) =>
        /\ Len(ret.out.val.items) =
               Len(Quantities(ret.args.return_velocity, ret.args.return_effective_mass))
        /\ ret.out.val.tuple = (Len(ret.out.val.items) # 1)
        /\ \A c \in 1..Len(ret.out.val.items) :
               Len(ret.out.val.items[c]) = Len(ret.args.kpoints)
        /\ \A n \in 1..Len(ret.args.kpoints) :
               MatchesSingle(ret.out.val.items, n,
                             get_energy(State, ret.inst, ret.args.kpoints[n],
                                        ret.args.iband, ret.args.return_velocity,
                                        ret.args.return_effective_mass, Absent).out,
                             Quantities(ret.args.return_velocity,
                                        ret.args.return_effective_mass))

\* Effective masses without velocities were returned for two k-points.
C7_Witness ==
    /\ Called("get_energies") /\ ret.out.ok /\ ret.args.scissor = 0
    /\ ~ret.args.return_velocity /\ ret.args.return_effective_mass
    /\ Len(ret.args.kpoints) = MaxKpoints

\* The parameters of instance i are in the registry.
Initialised(i) == _parameters_id[i] \in DOMAIN _parameters

\* The last call asked instance ret.inst, whose parameters are loaded, for a
\* band outside [min_band, max_band].
OutOfRange ==
    /\ Called("get_energy") \/ Called("get_energies")
    /\ Initialised(ret.inst)
    /\ \E j \in 1..Len(ret.args.iband.v) :
           ret.args.iband.v[j] \notin _parameters[_parameters_id[ret.inst]].allowed_ibands

\* The last call raised the band-out-of-range error with the bounds of the
\* instance in its message, with no task dispatched and no k-point evaluated.
RaisedOutOfRange ==
    /\ ~ret.out.ok
    /\ ret.out.exc = "ValueError"
    /\ ret.out.at = "_get_interpolation_coefficients"
    /\ ret.out.msg = <<"At least one band is not in range",
                       _parameters[_parameters_id[ret.inst]].min_band,
                       _parameters[_parameters_id[ret.inst]].max_band>>
    /\ ret.ev.dispatch = 0
    /\ ret.ev.evaluate = 0

\* The last call was get_energies with a scissor and no band type.
MissingBandType ==
    Called("get_energies") /\ ret.args.scissor # 0 /\ ret.args.is_cb = None

\* No pool is working on a request with a band out of range.
NoPoolOutOfRange ==
    pool.active =>
        \A j \in 1..Len(pool.args.iband.v) :
            pool.args.iband.v[j] \in _parameters[_parameters_id[pool.inst]].allowed_ibands

\* C3, as the code has it: a get_energy or get_energies request for a band
\* outside [min_band, max_band] of the loaded parameters, other than a
\* get_energies request with a scissor and no band type, raises the
\* band-out-of-range error naming both bounds before any task is dispatched
\* or any k-point evaluated.
C3_BandOutOfRange ==
    /\ NoPoolOutOfRange
    /\ (OutOfRange /\ ~MissingBandType) => RaisedOutOfRange

\* C3, as stated: every request for a band out of range raises that error.
C3_AsStated ==
    /\ NoPoolOutOfRange
    /\ OutOfRange => RaisedOutOfRange

\* A batch of two k-points for a band out of range, on an instance with a
\* pool, was refused.
C3_Witness ==
    /\ OutOfRange
    /\ Called("get_energies")
    /\ ~MissingBandType
    /\ _n_jobs[ret.inst] > 1
    /\ Len(ret.args.kpoints) = MaxKpoints
    /\ RaisedOutOfRange

\* A call has just returned or raised.
Returns == ret = NoRet /\ ret' # NoRet

\* C4: a get_energies call with scissor # 0 and is_cb None raises the
\* missing-band-type error with nothing done: no band lookup, no implicit
\* initialisation, no parse, no evaluation, and the state of every instance,
\* the registry and the files as before the call.
C4_MissingBandType ==
    [][(Returns /\ ret'.op = "get_energies" /\ ret'.args.scissor # 0
                /\ ret'.args.is_cb = None) =>
           /\ ret'.out = Raise("ValueError", "get_energies",
                               <<"To apply scissor set is_cb.">>)
           /\ ret'.ev = NoEvents
           /\ UNCHANGED <<_coeff_file, _parameters_id, _parameters, fs, runs, pool>>]_vars

\* The call was refused on an instance that is not initialised.
C4_Witness ==
    /\ MissingBandType
    /\ ~ret.out.ok
    /\ _parameters_id[ret.inst] = 0

\* C8: initialize on an instance whose parameters are loaded returns with the
\* coefficient-file path, the parameters key, every registry entry and the
\* files as they were, and without a run of the generator.
C8_InitializeIdempotent ==
    [][(Returns /\ ret'.op = "initialize" /\ Initialised(ret'.inst)) =>
           /\ ret'.out = Return(None)
           /\ ret'.ev.generate = 0
           /\ UNCHANGED <<_coeff_file, _parameters_id, _parameters, fs, runs>>]_vars

\* initialize returned without a run of the generator on an instance whose
\* file the generator wrote in an earlier call.
C8_Witness ==
    /\ Called("initialize")
    /\ ret.out.ok
    /\ ret.ev.generate = 0
    /\ runs[ret.inst] = 1

\* C9, as stated: initialize on an instance without a coefficient file, with
\* no file at the generator's path afterwards, raises the generation-failed
\* error after exactly one run of the generator, with the path and the key
\* still unset, the registry as it was and no parse.
C9_AsStated ==
    [][(Returns /\ ret'.op = "initialize" /\ NotPath(_coeff_file[ret'.inst])
                /\ fs'[GenPath(ret'.inst)] = Absent) =>
           /\ ~ret'.out.ok
           /\ ret'.out.exc = "RuntimeError"
           /\ ret'.out.at = "_generate_coeff_file"
           /\ ret'.ev.generate = 1
           /\ ret'.ev.parse = 0
           /\ UNCHANGED <<_coeff_file, _parameters_id, _parameters>>]_vars

\* The files whose text ends before the coefficient lines are complete.
Truncated == {"nobandline", "short"}

\* C5, as stated: initialize on an instance given a truncated file raises in
\* the parser, and the parameters of every instance hold
\* max_band - min_band + 1 coefficient rows.
C5_AsStated ==
    /\ (Called("initialize") /\ _coeff_file[ret.inst] \in Truncated) =>
           /\ ~ret.out.ok
           /\ ret.out.at = "_get_interpolation_parameters"
    /\ \A i \in Insts :
           Initialised(i) =>
               Len(_parameters[_parameters_id[i]].coefficients)
                   = _parameters[_parameters_id[i]].max_band
                     - _parameters[_parameters_id[i]].min_band + 1

\* The entries of star_vector_products_sq for G-vector g of parameters p:
\* one per symmetry slot, the outer product or zero.
SlotsOfSq(p, g) ==
    /\ Len(p.star_vector_products_sq[g]) = p.num_symmetries
    /\ \A i \in 1..Len(p.star_vector_products_sq[g]) :
           p.star_vector_products_sq[g][i] =
               IF i <= p.num_star_vectors[g]
               THEN outer(p.star_vector_products[g][i], p.star_vector_products[g][i])
               ELSE Zero33

\* C10, as stated: in the parameters of every instance star_vector_products_sq
\* has one entry per symmetry slot for every G-vector, and an evaluation of
\* the effective mass pairs each with the cosine of its slot: it never fails
\* to broadcast the two.
C10_AsStated ==
    /\ \A i \in Insts :
           Initialised(i) =>
               \A g \in DOMAIN _parameters[_parameters_id[i]].star_vectors :
                   SlotsOfSq(_parameters[_parameters_id[i]], g)
    /\ (Called("get_energy") \/ Called("get_energies")) =>
          \/ ret.out.ok
          \/ ret.out.msg # <<"could not be broadcast">>

\* The transpose of a 3x3 matrix.
Transposed(M) == [r \in 1..3 |-> [c \in 1..3 |-> M[c][r]]]

\* Operation n of a file as the program holds it: the n-th block of nine
\* numbers of the symmetry line, reshaped row-major and then transposed.
FileOp(file, n) ==
    Transposed(Reshape33([j \in 1..9 |-> SymLineAt(file.symline, 9 * (n - 1) + j)]))

\* The images of a G-vector under the first num_symmetries operations of a file.
Images(file, g_vector) == {MatVec(FileOp(file, n), g_vector) : n \in 1..file.header[3]}

\* The star of G-vector g in parameters p parsed from file.
StarOk(file, p, g) ==
    /\ 1 <= p.num_star_vectors[g]
    /\ p.num_star_vectors[g] <= file.header[3]
    /\ Len(p.star_vectors[g]) = file.header[3]
    /\ \A i, j \in 1..p.num_star_vectors[g] :
           i # j => p.star_vectors[g][i] # p.star_vectors[g][j]
    /\ {p.star_vectors[g][i] : i \in 1..p.num_star_vectors[g]} = Images(file, file.lines[g])
    /\ \A i \in (p.num_star_vectors[g] + 1)..Len(p.star_vectors[g]) :
           p.star_vectors[g][i] = Zero3
    /\ Images(file, file.lines[g]) = {Zero3} => p.num_star_vectors[g] = 1

\* C11: whenever _get_interpolation_parameters has been called on a file with
\* 1 <= num_symmetries <= 192, it returned parameters in which, for every
\* G-vector g of the file, the first num_star_vectors[g] slots of
\* star_vectors[g] are pairwise distinct and are exactly the images of g under
\* the first num_symmetries operations, 1 <= num_star_vectors[g] <=
\* num_symmetries, every later slot is the zero vector, and num_star_vectors[g]
\* is 1 when every operation maps g to the zero vector.
C11_StarConstruction ==
    Called("_get_interpolation_parameters") =>
        /\ ret.args.file.header[3] \in 1..NumFileSymOps
        /\ ret.out.ok
        /\ \A g \in 1..ret.args.file.header[2] :
               StarOk(ret.args.file, ret.out.val, g)

\* The call returned a star from which np.unique removed a repeated image of
\* a non-zero G-vector under three operations given in the file, and which
\* was padded: 2 members in 3 slots.
C11_Witness ==
    /\ Called("_get_interpolation_parameters")
    /\ ret.out.ok
    /\ ret.args.file.header[3] = 3
    /\ Len(ret.args.file.symline.given) = 27
    /\ ret.args.file.lines[1] # Zero3
    /\ ret.out.val.num_star_vectors[1] = 2
    /\ ret.out.val.star_vectors[1][3] = Zero3

====
